---- MODULE Spec2Model ----
(***************************************************************************)
(* Model of the DCGAN training orchestration in notebooks/02/dcgan/dcgan.py *)
(* : main, generate_checkpoint_folder, load_checkpoint, train_epoch,        *)
(* evaluate and save_checkpoint, together with the file system the          *)
(* checkpoints live in, the wall clock that names them and the telemetry    *)
(* session.  One process runs main at a time; it can be killed at any       *)
(* point and main can be started again.                                     *)
(***************************************************************************)
EXTENDS Integers, Sequences, FiniteSets, TLC

\* ------------------------------------------------------------------
\* Bounds of the model
\* ------------------------------------------------------------------
\* number of times main is started
MaxStarts == 2
\* batches the data source yields per epoch
NBatches == 2
\* the clock runs over the seconds 0..MaxTime
MaxTime == 2
\* the seconds of a day: "%H%M%S" starts again at every midnight
SecondsPerDay == 2
\* interruptions and failures of external calls (file system, telemetry
\* sink, tensor library) that happen in one behaviour
MaxFaults == 1

\* ------------------------------------------------------------------
\* Python values
\* ------------------------------------------------------------------
\* None is the empty tuple, any other value v is <<v>>
None == <<>>

Some(v) == <<v>>

\* str(n) for a small non-negative integer
Digits == <<"0", "1", "2", "3", "4", "5", "6", "7", "8", "9">>

Str(n) == Digits[n + 1]

\* int(s) raises ValueError unless s is a string of digits
IsInt(s) == \E n \in 0..9 : Digits[n + 1] = s

ParseInt(s) == CHOOSE n \in 0..9 : Digits[n + 1] = s

\* ------------------------------------------------------------------
\* Configuration documents: a mapping from keys to Python values
\* ------------------------------------------------------------------
BaseConfig ==
    [k \in {"use_cuda", "lr", "batch_size", "latent_dim", "ngf", "ndf", "nc",
            "beta1", "weight_decay", "image_size", "data_root",
            "wandb_project", "epochs", "checkpoint_interval",
            "num_eval_samples", "log_interval"} |->
        CASE k = "use_cuda" -> Some(FALSE)
          [] k = "epochs" -> Some(2)
          [] k = "checkpoint_interval" -> Some(1)
          [] k = "wandb_project" -> Some("dcgan")
          [] k = "data_root" -> Some("data")
          [] OTHER -> Some(1)]

\* config without key k
Without(c, k) == [x \in DOMAIN c \ {k} |-> c[x]]

\* config with key k set to Python value v
With(c, k, v) == [x \in DOMAIN c \cup {k} |-> IF x = k THEN v ELSE c[x]]

\* dict.get(key, default)
Get(c, k, default) == IF k \in DOMAIN c THEN c[k] ELSE default

\* a one-epoch run
ShortConfig == With(BaseConfig, "epochs", Some(1))

\* a run that saves a checkpoint at its first and at its final epoch only
SparseConfig ==
    With(With(BaseConfig, "epochs", Some(3)), "checkpoint_interval", Some(3))

\* the configuration documents main is started with
Configs ==
    { BaseConfig,
      ShortConfig,
      Without(With(ShortConfig, "lr", Some(2)), "log_interval"),
      With(ShortConfig, "tags", None),
      With(ShortConfig, "resume_training", Some(FALSE)),
      With(Without(BaseConfig, "lr"), "use_cuda", Some(TRUE)),
      Without(BaseConfig, "wandb_project"),
      Without(BaseConfig, "checkpoint_interval") }

\* the configuration documents of the runs with sparse checkpoints
SparseConfigs == {BaseConfig, SparseConfig}

\* the keys generate_checkpoint_folder builds key_params from
FingerprintKeys == {"lr", "batch_size", "latent_dim", "ngf", "ndf"}

\* the configs generate_checkpoint_folder is called with: every choice of
\* the five keys among two values, and for each the same config with
\* another number of epochs, with resume_training off and with another
\* checkpoint_dir
KeyValues == {1, 2}

FolderConfigs ==
    UNION { { c,
              With(c, "epochs", Some(1)),
              With(c, "resume_training", Some(FALSE)),
              With(c, "checkpoint_dir", Some("runs")) } :
            c \in { [k \in DOMAIN BaseConfig |->
                        IF k \in FingerprintKeys THEN Some(v[k])
                                                ELSE BaseConfig[k]] :
                    v \in [FingerprintKeys -> KeyValues] } }

\* keys main reads with config[...] before the checkpoint folder is made
SetupKeys ==
    {"latent_dim", "ngf", "nc", "ndf", "lr", "beta1", "weight_decay",
     "image_size", "data_root", "batch_size"}

\* ------------------------------------------------------------------
\* Checkpoint file names and folders
\* ------------------------------------------------------------------
\* strftime("%Y%m%d") and strftime("%H%M%S") of a time
Date(t) == Str(t \div SecondsPerDay)

TimeOfDay(t) == Str(t % SecondsPerDay)

\* A file name is the sequence of its "_"-separated parts, each part the
\* sequence of its "."-separated pieces.
\* f"ckpt_epoch_{epoch}_{timestamp}.pth", timestamp = "%Y%m%d_%H%M%S"
CheckpointFilename(e, t) ==
    << <<"ckpt">>, <<"epoch">>, <<Str(e)>>, <<Date(t)>>, <<TimeOfDay(t), "pth">> >>

\* f.startswith("ckpt_epoch_") and f.endswith(".pth")
IsCkptFile(f) ==
    /\ Len(f) >= 3
    /\ f[1] = <<"ckpt">>
    /\ f[2] = <<"epoch">>
    /\ Len(f[Len(f)]) >= 2
    /\ f[Len(f)][Len(f[Len(f)])] = "pth"

\* f.split("_")[-1].split(".")[0]
KeyText(f) == f[Len(f)][1]

\* the key of max(): int(f.split("_")[-1].split(".")[0])
SortKey(f) == ParseInt(KeyText(f))

\* sha256(key_params)[:8]: a digest that does not determine its input
HashMod == 4

ConfigHash(key_params) ==
    (key_params[1] + 2 * key_params[2] + 3 * key_params[3]
       + 5 * key_params[4] + 7 * key_params[5]) % HashMod

\* a folder name that leaves ndf out of key_params
FolderPathWithoutNdf(c) ==
    LET key_params == << c["lr"][1], c["batch_size"][1], c["latent_dim"][1],
                         c["ngf"][1], 0 >>
    IN  << Get(c, "checkpoint_dir", Some("checkpoints")),
           key_params, ConfigHash(key_params) >>

\* the path generate_checkpoint_folder returns
FolderPath(c) ==
    LET key_params == << c["lr"][1], c["batch_size"][1], c["latent_dim"][1],
                         c["ngf"][1], c["ndf"][1] >>
    IN  << Get(c, "checkpoint_dir", Some("checkpoints")),
           key_params, ConfigHash(key_params) >>

\* ------------------------------------------------------------------
\* State
\* ------------------------------------------------------------------
VARIABLES
    \* the world outside the process
    clock,            \* datetime.datetime.now(), in seconds
    dirs,             \* the directories that exist
    fs,               \* the files in them: records [folder, name, complete, state]
    artifacts,        \* the artifacts registered with the telemetry sink
    sink,             \* the telemetry event logged last: [run, step, kind]
    \* the process running main
    pc,               \* position in main
    starts,           \* how many times main has been started
    faults,           \* how many interruptions and failures have happened
    config,           \* the config argument of main
    generator, discriminator, optimizer_g, optimizer_d,
    training,         \* generator.training
    checkpoint_folder,
    start_epoch, epoch, global_step, run_id,
    wandb_run,        \* wandb.run: None or the id of the active run
    i,                \* the batch index in train_epoch
    gen_imgs,         \* the synthetic batch of the generator step
    d_input,          \* the synthetic batch the discriminator step was fed
    checkpoint_path,  \* the file save_checkpoint is writing
    exc,              \* the exception that is propagating, "" if none
    \* history variables
    selected,         \* the checkpoint files load_checkpoint chose as latest
    reported,         \* the keys load_checkpoint reported as differing
    decision,         \* what load_checkpoint decided
    before,           \* models and optimizers just before load_checkpoint
    processed,        \* batches processed since the run began
    lastSaved,        \* the checkpoint files whose save completed last
    interrupted,      \* the previous process was killed
    mutated,          \* what the current process has mutated so far
    \* a second caller of generate_checkpoint_folder
    other_config,     \* the config of the other call
    other_folder      \* the path the other call returned

world == <<clock, dirs, fs, artifacts, sink>>

models == <<generator, discriminator, optimizer_g, optimizer_d, training>>

counters == <<start_epoch, epoch, global_step, run_id, i>>

batch == <<gen_imgs, d_input>>

aside == <<other_config, other_folder>>

history == <<selected, reported, decision, before, processed, lastSaved, mutated>>

vars == <<world, pc, starts, faults, interrupted, config, models, checkpoint_folder, counters,
          wandb_run, checkpoint_path, exc, history, batch, aside>>

\* main is not running
Stopped == {"idle", "done", "aborted", "killed"}

\* the value of a required key, config[key]
Val(c, k) == c[k][1]

\* freshly initialised parameters of the n-th process, and their updates
Fresh(n) == [init |-> n, updates |-> 0]

Step(m) == [m EXCEPT !.updates = @ + 1]

\* no synthetic batch: the process has not run a generator step
NoImgs == [noise |-> <<0, 0>>, by |-> Fresh(0), requires_grad |-> FALSE]

\* no telemetry event has been logged
NoEvent == [run |-> None, step |-> 0, kind |-> "none"]

Init ==
    /\ clock = 0
    /\ dirs = {}
    /\ fs = {}
    /\ artifacts = {}
    /\ sink = NoEvent
    /\ pc = "idle"
    /\ starts = 0
    /\ faults = 0
    /\ interrupted = FALSE
    /\ config = BaseConfig
    /\ generator = Fresh(0)
    /\ discriminator = Fresh(0)
    /\ optimizer_g = Fresh(0)
    /\ optimizer_d = Fresh(0)
    /\ training = TRUE
    /\ checkpoint_folder = None
    /\ start_epoch = 0
    /\ epoch = 0
    /\ global_step = 0
    /\ run_id = None
    /\ wandb_run = None
    /\ i = 0
    /\ gen_imgs = NoImgs
    /\ d_input = NoImgs
    /\ checkpoint_path = None
    /\ exc = ""
    /\ selected = {}
    /\ reported = {}
    /\ decision = "none"
    /\ before = <<Fresh(0), Fresh(0), Fresh(0), Fresh(0)>>
    /\ processed = 0
    /\ lastSaved = {}
    /\ mutated = {}
    /\ other_config = BaseConfig
    /\ other_folder = None

\* ------------------------------------------------------------------
\* The environment
\* ------------------------------------------------------------------
\* time passes.  The clock is read by save_checkpoint only, so time is let
\* pass just before it is read.
Tick ==
    /\ pc = "save"
    /\ clock < MaxTime
    /\ clock' = clock + 1
    /\ UNCHANGED <<aside, batch, dirs, fs, artifacts, sink, pc, starts, faults, interrupted, config,
                   models, checkpoint_folder, counters, wandb_run,
                   checkpoint_path, exc, history>>

\* the memory of a process that is gone
NoProcess ==
    /\ config' = BaseConfig
    /\ generator' = Fresh(0)
    /\ discriminator' = Fresh(0)
    /\ optimizer_g' = Fresh(0)
    /\ optimizer_d' = Fresh(0)
    /\ training' = TRUE
    /\ checkpoint_folder' = None
    /\ start_epoch' = 0
    /\ epoch' = 0
    /\ global_step' = 0
    /\ run_id' = None
    /\ wandb_run' = None
    /\ i' = 0
    /\ gen_imgs' = NoImgs
    /\ d_input' = NoImgs
    /\ checkpoint_path' = None
    /\ exc' = ""
    /\ selected' = {}
    /\ reported' = {}
    /\ decision' = "none"
    /\ before' = <<Fresh(0), Fresh(0), Fresh(0), Fresh(0)>>
    /\ mutated' = {}

\* the process is interrupted (killed) at any point of main
Kill ==
    /\ pc \notin Stopped
    /\ faults < MaxFaults
    /\ faults' = faults + 1
    /\ pc' = "killed"
    /\ interrupted' = TRUE
    /\ NoProcess
    /\ UNCHANGED <<aside, world, starts, processed, lastSaved>>

\* the process that returned from main, or left it by an exception, exits
Exit ==
    /\ pc \in {"done", "aborted"}
    /\ pc' = "idle"
    /\ interrupted' = FALSE
    /\ NoProcess
    /\ UNCHANGED <<aside, world, starts, faults, processed, lastSaved>>

\* ------------------------------------------------------------------
\* main, up to the training loop
\* ------------------------------------------------------------------
\* bool(v) of a Python value holding None or a boolean
Truthy(v) == v # None /\ v[1] # FALSE

\* main, lines 302-314: the hardware check, then the models, the optimizers
\* and the data loader are built from the config
StartMain(c, cuda_available) ==
    /\ pc \in {"idle", "killed"}
    /\ starts < MaxStarts
    /\ starts' = starts + 1
    /\ config' = c
    /\ generator' = Fresh(starts + 1)
    /\ discriminator' = Fresh(starts + 1)
    /\ optimizer_g' = Fresh(starts + 1)
    /\ optimizer_d' = Fresh(starts + 1)
    /\ training' = TRUE
    /\ checkpoint_folder' = None
    /\ start_epoch' = 0
    /\ epoch' = 0
    /\ global_step' = 0
    /\ run_id' = None
    /\ wandb_run' = None
    /\ i' = 0
    /\ gen_imgs' = NoImgs
    /\ d_input' = NoImgs
    /\ checkpoint_path' = None
    /\ selected' = {}
    /\ reported' = {}
    /\ decision' = "none"
    /\ before' = <<Fresh(starts + 1), Fresh(starts + 1), Fresh(starts + 1),
                   Fresh(starts + 1)>>
    /\ mutated' = {}
    /\ IF "use_cuda" \notin DOMAIN c
         THEN pc' = "aborted" /\ exc' = "KeyError"
         ELSE IF Truthy(c["use_cuda"]) /\ ~cuda_available
           THEN pc' = "aborted" /\ exc' = "RuntimeError"
           ELSE IF ~(SetupKeys \subseteq DOMAIN c)
             THEN pc' = "aborted" /\ exc' = "KeyError"
             ELSE pc' = "folder" /\ exc' = ""
    /\ UNCHANGED <<aside, world, faults, interrupted, processed, lastSaved>>

\* generate_checkpoint_folder: os.makedirs(folder_path, exist_ok=True)
GenerateCheckpointFolder ==
    /\ pc = "folder"
    /\ checkpoint_folder' = FolderPath(config)
    /\ dirs' = dirs \cup {FolderPath(config)}
    /\ mutated' = mutated \cup {"folder"}
    /\ pc' = "resume"
    /\ UNCHANGED <<aside, batch, clock, fs, artifacts, sink, starts, faults, interrupted, config, models,
                   counters, wandb_run, checkpoint_path, exc, selected,
                   reported, decision, before, processed, lastSaved>>

\* the files load_checkpoint lists in the folder
CkptFiles(folder) == {f \in fs : f.folder = folder /\ IsCkptFile(f.name)}

\* max(ckpt_files, key=...): a file with the largest key; os.listdir gives
\* the files in no particular order, so any file with that key can be first
Latest(files) ==
    {f \in files : \A g \in files : SortKey(g.name) <= SortKey(f.name)}

\* the keys the warning loop of load_checkpoint names
DiffKeys(a, b) ==
    {k \in DOMAIN a \cup DOMAIN b : Get(a, k, None) # Get(b, k, None)}

\* a resume that repeats the epoch the checkpoint was saved at
StartEpochRepeated(state) == state.epoch

\* line 183: start_epoch = state["epoch"] + 1
StartEpochOf(state) == state.epoch + 1

\* load_checkpoint returns or raises: the effect on the caller
LoadOutcome(se, gs, rid, g, d, og, od, sel, rep, dec, e) ==
    /\ start_epoch' = se
    /\ global_step' = gs
    /\ run_id' = rid
    /\ generator' = g
    /\ discriminator' = d
    /\ optimizer_g' = og
    /\ optimizer_d' = od
    /\ selected' = sel
    /\ reported' = rep
    /\ decision' = dec
    /\ exc' = e
    /\ pc' = IF e = "" THEN "wandb_init" ELSE "aborted"
    /\ mutated' = IF dec = "accepted" THEN mutated \cup {"loaded"} ELSE mutated
    /\ processed' = IF dec = "accepted" THEN processed ELSE 0

LoadKeep(sel, rep, dec, e) ==
    LoadOutcome(0, 0, None, generator, discriminator, optimizer_g,
                optimizer_d, sel, rep, dec, e)

\* main, lines 319-323, with load_checkpoint
Resume ==
    /\ pc = "resume"
    /\ before' = <<generator, discriminator, optimizer_g, optimizer_d>>
    /\ IF ~(checkpoint_folder \in dirs
             /\ Truthy(Get(config, "resume_training", Some(TRUE))))
         THEN LoadKeep({}, {}, "skipped", "")
         ELSE LET files == CkptFiles(checkpoint_folder) IN
           IF files = {}
             THEN LoadKeep({}, {}, "nofiles", "")
             ELSE IF \E f \in files : ~IsInt(KeyText(f.name))
               THEN LoadKeep({}, {}, "raised", "ValueError")
               ELSE \E latest \in Latest(files) :
                 IF ~latest.complete
                   THEN LoadKeep({latest}, {}, "raised", "LoadError")
                   ELSE IF latest.state.config # config
                     THEN LoadKeep({latest},
                                   DiffKeys(latest.state.config, config),
                                   "rejected", "")
                     ELSE LoadOutcome(StartEpochOf(latest.state),
                                      latest.state.global_step,
                                      latest.state.wandb_run_id,
                                      latest.state.generator_state_dict,
                                      latest.state.discriminator_state_dict,
                                      latest.state.optimizer_g_state_dict,
                                      latest.state.optimizer_d_state_dict,
                                      {latest}, {}, "accepted", "")
    /\ UNCHANGED <<aside, batch, world, starts, faults, interrupted, config, training, checkpoint_folder, epoch,
                   i, wandb_run, checkpoint_path, lastSaved>>

\* an external call fails: it raises e
Fault == faults < MaxFaults /\ faults' = faults + 1

NoFault == faults' = faults

\* main, line 329: wandb.init(project=config["wandb_project"], id=run_id,
\* resume="allow"); a run id of None makes the sink create a new run
WandbInit ==
    /\ pc = "wandb_init"
    /\ IF "wandb_project" \notin DOMAIN config
         THEN /\ pc' = "aborted"
              /\ exc' = "KeyError"
              /\ NoFault
              /\ UNCHANGED <<wandb_run, mutated>>
         ELSE \/ /\ wandb_run' = IF run_id = None THEN Some(starts) ELSE run_id
                 /\ mutated' = mutated \cup {"telemetry"}
                 /\ pc' = "wandb_watch"
                 /\ exc' = exc
                 /\ NoFault
              \/ /\ Fault
                 /\ pc' = "aborted"
                 /\ exc' = "InitError"
                 /\ UNCHANGED <<wandb_run, mutated>>
    /\ UNCHANGED <<aside, batch, world, starts, interrupted, config, models, checkpoint_folder, counters,
                   checkpoint_path, selected, reported, decision, before,
                   processed, lastSaved>>

\* main, lines 330-331: wandb.watch on both models, outside the try block
WandbWatch ==
    /\ pc = "wandb_watch"
    /\ \/ pc' = "try" /\ exc' = exc /\ NoFault
       \/ Fault /\ pc' = "aborted" /\ exc' = "WatchError"
    /\ UNCHANGED <<aside, batch, world, starts, interrupted, config, models, checkpoint_folder, counters,
                   wandb_run, checkpoint_path, history>>

\* ------------------------------------------------------------------
\* The training loop: main, lines 333-342
\* ------------------------------------------------------------------
\* an exception raised inside the try block runs the finally clause
Raise(e) == pc' = "finally" /\ exc' = e

\* line 334: range(start_epoch, config["epochs"]) is evaluated
EnterLoop ==
    /\ pc = "try"
    /\ IF "epochs" \notin DOMAIN config
         THEN Raise("KeyError") /\ epoch' = epoch
         ELSE pc' = "loop" /\ exc' = exc /\ epoch' = start_epoch
    /\ UNCHANGED <<aside, batch, world, starts, faults, interrupted, config, models, checkpoint_folder,
                   start_epoch, global_step, run_id, i, wandb_run,
                   checkpoint_path, history>>

\* line 334: the next epoch of the range, or the end of the loop;
\* train_epoch, lines 196-203
NextEpoch ==
    /\ pc = "loop"
    /\ IF epoch < Val(config, "epochs")
         THEN pc' = "gen" /\ i' = 0 /\ training' = TRUE
         ELSE pc' = "finally" /\ i' = i /\ training' = training
    /\ UNCHANGED <<aside, batch, world, starts, faults, interrupted, config, generator, discriminator,
                   optimizer_g, optimizer_d, checkpoint_folder, start_epoch,
                   epoch, global_step, run_id, wandb_run, checkpoint_path,
                   exc, history>>

\* a step counter that advances by the samples of the batch
GlobalStepBySamples(g) == g + 2

\* line 246: global_step += 1
GlobalStepAfterBatch(g) == g + 1

\* wandb.log(..., step=step) on the active run
Logged(kind, step) ==
    /\ sink' = [run |-> wandb_run, step |-> step, kind |-> kind]
    /\ mutated' = mutated \cup {"logged"}

\* line 238: config.get("log_interval", -1) != -1 and
\* i % config["log_interval"] == 0
LogDue(c, n) ==
    /\ Get(c, "log_interval", Some(-1)) # Some(-1)
    /\ n % Val(c, "log_interval") = 0

\* train_epoch, lines 205-221: the generator step of one batch; gen_imgs is
\* computed from the noise of the batch before optimizer_g.step()
GenStep ==
    /\ pc = "gen"
    /\ \/ /\ gen_imgs' = [noise |-> <<epoch, i>>, by |-> generator,
                          requires_grad |-> TRUE]
          /\ generator' = Step(generator)
          /\ optimizer_g' = Step(optimizer_g)
          /\ mutated' = mutated \cup {"batch"}
          /\ pc' = "disc"
          /\ exc' = exc
          /\ NoFault
       \/ /\ Fault
          /\ Raise("TrainError")
          /\ UNCHANGED <<gen_imgs, generator, optimizer_g, mutated>>
    /\ UNCHANGED <<aside, d_input, world, starts, interrupted, config,
                   discriminator, optimizer_d, training, checkpoint_folder,
                   counters, wandb_run, checkpoint_path, selected, reported,
                   decision, before, processed, lastSaved>>

\* a tensor passed on with its graph
Attached(x) == x

\* line 227: gen_imgs.detach(), the values of the tensor cut off from the
\* graph of the generator
Detach(x) == [x EXCEPT !.requires_grad = FALSE]

\* train_epoch, lines 226-246: the discriminator step of the batch, the
\* per-batch log, then global_step += 1
DiscStep ==
    /\ pc = "disc"
    /\ \/ /\ d_input' = Detach(gen_imgs)
          /\ discriminator' = Step(discriminator)
          /\ optimizer_d' = Step(optimizer_d)
          /\ IF LogDue(config, i)
               THEN Logged("batch", global_step)
               ELSE UNCHANGED <<sink, mutated>>
          /\ global_step' = GlobalStepAfterBatch(global_step)
          /\ processed' = processed + 1
          /\ i' = i + 1
          /\ pc' = IF i + 1 = NBatches THEN "epoch_end" ELSE "gen"
          /\ exc' = exc
          /\ NoFault
       \/ /\ Fault
          /\ Raise("TrainError")
          /\ UNCHANGED <<d_input, discriminator, optimizer_d, sink, mutated,
                         global_step, processed, i>>
    /\ UNCHANGED <<aside, gen_imgs, clock, dirs, fs, artifacts, starts,
                   interrupted, config, generator, optimizer_g, training,
                   checkpoint_folder, start_epoch, epoch, run_id, wandb_run,
                   checkpoint_path, selected, reported, decision, before,
                   lastSaved>>

\* a checkpoint after every epoch
CheckpointEveryEpoch(c, e) == TRUE

\* line 337: epoch % checkpoint_interval == 0 or epoch == epochs - 1
CheckpointDue(c, e) ==
    \/ e % Val(c, "checkpoint_interval") = 0
    \/ e = Val(c, "epochs") - 1

\* epoch averages keyed by the epoch number
EpochLogStepByEpoch(e, g) == e

\* line 255: the epoch averages are logged with step=global_step
EpochLogStep(e, g) == g

\* train_epoch, lines 248-258: the epoch averages are logged; then the test
\* of line 337
EpochEnd ==
    /\ pc = "epoch_end"
    /\ Logged("epoch", EpochLogStep(epoch, global_step))
    /\ IF "checkpoint_interval" \notin DOMAIN config
         THEN Raise("KeyError") /\ epoch' = epoch
         ELSE IF CheckpointDue(config, epoch)
           THEN pc' = "evaluate" /\ exc' = exc /\ epoch' = epoch
           ELSE pc' = "loop" /\ exc' = exc /\ epoch' = epoch + 1
    /\ UNCHANGED <<aside, batch, clock, dirs, fs, artifacts, starts, faults,
                   interrupted, config, models, checkpoint_folder,
                   start_epoch, global_step, run_id, i, wandb_run,
                   checkpoint_path, selected, reported, decision, before,
                   processed, lastSaved>>

\* a generator left in the mode evaluate has put it in
ModeKept(mode) == mode

\* line 271: generator.train()
ModeRestored(mode) == TRUE

\* evaluate, lines 264-271: generator.eval(), the images are generated and
\* logged with step=step, generator.train()
Evaluate ==
    /\ pc = "evaluate"
    /\ IF "num_eval_samples" \notin DOMAIN config
         THEN /\ Raise("KeyError")
              /\ training' = FALSE
              /\ NoFault
              /\ UNCHANGED <<sink, mutated>>
         ELSE \/ /\ Logged("images", global_step)
                 /\ pc' = "save"
                 /\ exc' = exc
                 /\ training' = ModeRestored(FALSE)
                 /\ NoFault
              \/ /\ Fault
                 /\ Raise("EvalError")
                 /\ training' = FALSE
                 /\ UNCHANGED <<sink, mutated>>
    /\ UNCHANGED <<aside, batch, clock, dirs, fs, artifacts, starts,
                   interrupted, config, generator, discriminator,
                   optimizer_g, optimizer_d, checkpoint_folder, counters,
                   wandb_run, checkpoint_path, selected, reported, decision,
                   before, processed, lastSaved>>

\* ------------------------------------------------------------------
\* save_checkpoint
\* ------------------------------------------------------------------
\* writing a file replaces the file of that name
WriteFile(files, f) ==
    {g \in files : ~(g.folder = f.folder /\ g.name = f.name)} \cup {f}

\* lines 132-141: the state dictionary
CheckpointState ==
    [epoch |-> epoch,
     global_step |-> global_step,
     generator_state_dict |-> generator,
     discriminator_state_dict |-> discriminator,
     optimizer_g_state_dict |-> optimizer_g,
     optimizer_d_state_dict |-> optimizer_d,
     wandb_run_id |-> wandb_run,
     config |-> config]

\* lines 129-142: the file name is made from the clock and torch.save
\* opens the file at its final path
SaveOpen ==
    /\ pc = "save"
    /\ \/ /\ checkpoint_path' = CheckpointFilename(epoch, clock)
          /\ fs' = WriteFile(fs, [folder |-> checkpoint_folder,
                                  name |-> CheckpointFilename(epoch, clock),
                                  complete |-> FALSE,
                                  state |-> CheckpointState])
          /\ pc' = "save_write"
          /\ exc' = exc
          /\ NoFault
       \/ /\ Fault
          /\ Raise("SaveError")
          /\ UNCHANGED <<checkpoint_path, fs>>
    /\ UNCHANGED <<aside, batch, clock, dirs, artifacts, sink, starts, interrupted, config, models,
                   checkpoint_folder, counters, wandb_run, history>>

\* line 142: torch.save writes the state and closes the file
SaveWrite ==
    /\ pc = "save_write"
    /\ \/ /\ fs' = WriteFile(fs, [folder |-> checkpoint_folder,
                                  name |-> checkpoint_path,
                                  complete |-> TRUE,
                                  state |-> CheckpointState])
          /\ lastSaved' = {[folder |-> checkpoint_folder,
                            name |-> checkpoint_path,
                            complete |-> TRUE,
                            state |-> CheckpointState]}
          /\ pc' = "save_finish"
          /\ exc' = exc
          /\ NoFault
       \/ /\ Fault
          /\ Raise("SaveError")
          /\ UNCHANGED <<fs, lastSaved>>
    /\ UNCHANGED <<aside, batch, clock, dirs, artifacts, sink, starts, interrupted, config, models,
                   checkpoint_folder, counters, wandb_run, checkpoint_path,
                   selected, reported, decision, before, processed, mutated>>

\* lines 145-153: config.yaml is rewritten (no code reads it back) and the
\* artifact named after epoch and timestamp is logged; save_checkpoint
\* returns and the loop goes to the next epoch
SaveFinish ==
    /\ pc = "save_finish"
    /\ \/ /\ artifacts' = artifacts \cup {checkpoint_path}
          /\ pc' = "loop"
          /\ exc' = exc
          /\ epoch' = epoch + 1
          /\ NoFault
       \/ /\ Fault
          /\ Raise("SaveError")
          /\ UNCHANGED <<artifacts, epoch>>
    /\ UNCHANGED <<aside, batch, clock, dirs, fs, sink, starts, interrupted, config, models,
                   checkpoint_folder, start_epoch, global_step, run_id, i,
                   wandb_run, checkpoint_path, history>>

\* lines 340-342: wandb.finish() in the finally clause
Finally ==
    /\ pc = "finally"
    /\ wandb_run' = None
    /\ pc' = IF exc = "" THEN "done" ELSE "aborted"
    /\ UNCHANGED <<aside, batch, world, starts, faults, interrupted, config, models, checkpoint_folder, counters,
                   checkpoint_path, exc, history>>

\* ------------------------------------------------------------------
\* A malformed entry: between two runs somebody copies a checkpoint of a
\* run folder to ckpt_epoch_<e>_backup.pth; load_checkpoint lists it
\* ------------------------------------------------------------------
BackupName(f) == << <<"ckpt">>, <<"epoch">>, f.name[3], <<"backup", "pth">> >>

PlaceMalformedEntry ==
    /\ pc \in {"idle", "killed"}
    /\ faults < MaxFaults
    /\ faults' = faults + 1
    /\ \E f \in fs :
         /\ IsInt(KeyText(f.name))
         /\ f.complete
         /\ fs' = WriteFile(fs, [f EXCEPT !.name = BackupName(f)])
    /\ UNCHANGED <<aside, batch, clock, dirs, artifacts, sink, pc, starts, interrupted, config,
                   models, checkpoint_folder, counters, wandb_run,
                   checkpoint_path, exc, history>>

Next ==
    \/ Tick
    \/ Kill
    \/ Exit
    \/ PlaceMalformedEntry
    \/ \E c \in Configs, cuda_available \in BOOLEAN : StartMain(c, cuda_available)
    \/ GenerateCheckpointFolder
    \/ Resume
    \/ WandbInit
    \/ WandbWatch
    \/ EnterLoop
    \/ NextEpoch
    \/ GenStep
    \/ DiscStep
    \/ EpochEnd
    \/ Evaluate
    \/ SaveOpen
    \/ SaveWrite
    \/ SaveFinish
    \/ Finally

Spec == Init /\ [][Next]_vars

\* ------------------------------------------------------------------
\* A folder two earlier runs have shared
\* ------------------------------------------------------------------
\* the checkpoint of epoch e a process n that started fresh under config c
\* has saved at time t
LeftBy(c, n, e, t) ==
    [folder |-> FolderPath(c),
     name |-> CheckpointFilename(e, t),
     complete |-> TRUE,
     state |-> [epoch |-> e,
                global_step |-> (e + 1) * NBatches,
                generator_state_dict |->
                    [init |-> n, updates |-> (e + 1) * NBatches],
                discriminator_state_dict |->
                    [init |-> n, updates |-> (e + 1) * NBatches],
                optimizer_g_state_dict |->
                    [init |-> n, updates |-> (e + 1) * NBatches],
                optimizer_d_state_dict |->
                    [init |-> n, updates |-> (e + 1) * NBatches],
                wandb_run_id |-> Some(n),
                config |-> c]]

\* The state Spec is in after two processes, here numbered -2 and -1: main
\* was started under BaseConfig, saved epoch 0 at time 0 and was killed;
\* main was then started under ShortConfig (the same keys but epochs),
\* rejected that checkpoint, started fresh, saved its epoch 0 at time 1 and
\* returned.  starts counts the processes started from here on.
InitShared ==
    /\ clock = 1
    /\ dirs = {FolderPath(BaseConfig)}
    /\ fs = {LeftBy(BaseConfig, -2, 0, 0), LeftBy(ShortConfig, -1, 0, 1)}
    /\ artifacts = {CheckpointFilename(0, 0), CheckpointFilename(0, 1)}
    /\ sink = [run |-> Some(-1), step |-> NBatches, kind |-> "images"]
    /\ pc = "idle"
    /\ starts = 0
    /\ faults = 0
    /\ interrupted = FALSE
    /\ config = BaseConfig
    /\ generator = Fresh(0)
    /\ discriminator = Fresh(0)
    /\ optimizer_g = Fresh(0)
    /\ optimizer_d = Fresh(0)
    /\ training = TRUE
    /\ checkpoint_folder = None
    /\ start_epoch = 0
    /\ epoch = 0
    /\ global_step = 0
    /\ run_id = None
    /\ wandb_run = None
    /\ i = 0
    /\ gen_imgs = NoImgs
    /\ d_input = NoImgs
    /\ checkpoint_path = None
    /\ exc = ""
    /\ selected = {}
    /\ reported = {}
    /\ decision = "none"
    /\ before = <<Fresh(0), Fresh(0), Fresh(0), Fresh(0)>>
    /\ processed = NBatches
    /\ lastSaved = {LeftBy(ShortConfig, -1, 0, 1)}
    /\ mutated = {}
    /\ other_config = BaseConfig
    /\ other_folder = None

SpecShared == InitShared /\ [][Next]_vars

\* ------------------------------------------------------------------
\* generate_checkpoint_folder called for two configs in turn
\* ------------------------------------------------------------------
InitFolder ==
    /\ clock = 0
    /\ dirs = {}
    /\ fs = {}
    /\ artifacts = {}
    /\ sink = NoEvent
    /\ pc = "folder"
    /\ starts = 1
    /\ faults = 0
    /\ interrupted = FALSE
    /\ config \in FolderConfigs
    /\ generator = Fresh(1)
    /\ discriminator = Fresh(1)
    /\ optimizer_g = Fresh(1)
    /\ optimizer_d = Fresh(1)
    /\ training = TRUE
    /\ checkpoint_folder = None
    /\ start_epoch = 0
    /\ epoch = 0
    /\ global_step = 0
    /\ run_id = None
    /\ wandb_run = None
    /\ i = 0
    /\ gen_imgs = NoImgs
    /\ d_input = NoImgs
    /\ checkpoint_path = None
    /\ exc = ""
    /\ selected = {}
    /\ reported = {}
    /\ decision = "none"
    /\ before = <<Fresh(1), Fresh(1), Fresh(1), Fresh(1)>>
    /\ processed = 0
    /\ lastSaved = {}
    /\ mutated = {}
    /\ other_config \in FolderConfigs
    /\ other_folder = None

\* the call has returned; the next call is made for the other config
NextCaller ==
    /\ pc = "resume"
    /\ other_config' = config
    /\ other_folder' = checkpoint_folder
    /\ config' = other_config
    /\ checkpoint_folder' = None
    /\ pc' = "folder"
    /\ UNCHANGED <<batch, world, starts, faults, interrupted, models,
                   counters, wandb_run, checkpoint_path, exc, history>>

NextFolder ==
    \/ GenerateCheckpointFolder
    \/ NextCaller

SpecFolder == InitFolder /\ [][NextFolder]_vars

\* main started with the configs of SparseConfigs
NextSparse ==
    \/ Tick
    \/ Kill
    \/ Exit
    \/ PlaceMalformedEntry
    \/ \E c \in SparseConfigs, cuda_available \in BOOLEAN :
          StartMain(c, cuda_available)
    \/ GenerateCheckpointFolder
    \/ Resume
    \/ WandbInit
    \/ WandbWatch
    \/ EnterLoop
    \/ NextEpoch
    \/ GenStep
    \/ DiscStep
    \/ EpochEnd
    \/ Evaluate
    \/ SaveOpen
    \/ SaveWrite
    \/ SaveFinish
    \/ Finally

SpecSparse == Init /\ [][NextSparse]_vars

\* ------------------------------------------------------------------
\* Properties
\* ------------------------------------------------------------------
\* load_checkpoint has just returned to main, or has just raised
LoadReturned == pc = "wandb_init"

LoadRaised == pc = "aborted" /\ decision = "raised"

\* main is past load_checkpoint
AfterLoad ==
    pc \in {"wandb_init", "wandb_watch", "try", "loop", "gen", "disc",
            "epoch_end", "evaluate", "save", "save_write", "save_finish",
            "finally", "done"}

\* the epoch number embedded in a checkpoint file name
EpochOf(f) == ParseInt(f.name[3][1])

\* C1: the checkpoint load_checkpoint selects as latest is one whose embedded
\* epoch number is the maximum over the (completely written) checkpoint
\* files of the folder, whatever the timestamps in the names are.
C1_LatestHasMaxEpoch ==
    LoadReturned =>
        \A f \in selected : \A g \in CkptFiles(f.folder) :
            g.complete => EpochOf(g) <= EpochOf(f)

\* C2: save/load round trip.  The file save_checkpoint has written holds the
\* epoch, global_step, run id, models and optimizers of the process, and a
\* load_checkpoint whose config equals the config stored in the checkpoint
\* it opens accepts it, restores both models and both optimizers from it
\* and returns (epoch + 1, global_step, run id).
C2_RoundTrip ==
    /\ pc = "save_finish" =>
         \E f \in fs :
            /\ f.folder = checkpoint_folder
            /\ f.name = checkpoint_path
            /\ f.complete
            /\ f.state.epoch = epoch
            /\ f.state.global_step = global_step
            /\ f.state.wandb_run_id = wandb_run
            /\ f.state.generator_state_dict = generator
            /\ f.state.discriminator_state_dict = discriminator
            /\ f.state.optimizer_g_state_dict = optimizer_g
            /\ f.state.optimizer_d_state_dict = optimizer_d
            /\ f.state.config = config
    /\ LoadReturned =>
         \A f \in selected :
            f.state.config = config =>
               /\ decision = "accepted"
               /\ start_epoch = f.state.epoch + 1
               /\ global_step = f.state.global_step
               /\ run_id = f.state.wandb_run_id
               /\ generator = f.state.generator_state_dict
               /\ discriminator = f.state.discriminator_state_dict
               /\ optimizer_g = f.state.optimizer_g_state_dict
               /\ optimizer_d = f.state.optimizer_d_state_dict

\* a checkpoint trained for at least one epoch by an earlier process is
\* accepted and restored
C2_Witness ==
    /\ LoadReturned
    /\ decision = "accepted"
    /\ global_step >= NBatches
    /\ run_id # None
    /\ generator.init # starts

\* the keys in which two configs differ: a changed value, or a key present
\* in only one of them
DifferingKeys(a, b) ==
    {k \in DOMAIN a \cup DOMAIN b :
        \/ k \notin DOMAIN a
        \/ k \notin DOMAIN b
        \/ a[k] # b[k]}

\* C3: when the config stored in the checkpoint differs from the current
\* config in at least one key, load_checkpoint rejects it: it reports every
\* differing key, returns (0, 0, None) and leaves both models and both
\* optimizers as they were before the call.
C3_RejectReportsEveryKey ==
    LoadReturned =>
        \A f \in selected :
            f.state.config # config =>
               /\ decision = "rejected"
               /\ reported = DifferingKeys(f.state.config, config)
               /\ start_epoch = 0 /\ global_step = 0 /\ run_id = None
               /\ <<generator, discriminator, optimizer_g, optimizer_d>> = before

\* C4 as stated: once main is past load_checkpoint, global_step equals the
\* number of batches processed so far in the run, across interruptions and
\* resumes.
C4_StepCountsAllBatches == AfterLoad => global_step = processed

\* the global_step and the discriminator updates main starts training with
StartStep ==
    IF decision = "accepted"
      THEN (CHOOSE f \in selected : TRUE).state.global_step
      ELSE 0

StartUpdates ==
    IF decision = "accepted"
      THEN (CHOOSE f \in selected : TRUE).state.discriminator_state_dict.updates
      ELSE 0

\* C4 amended: within one process global_step never decreases; an accepted
\* resume starts from the global_step persisted in the checkpoint it loads,
\* not from 0; and global_step equals that starting value plus the number of
\* batches this process has completed.
C4_StepContinuesFromCheckpoint ==
    /\ [](AfterLoad =>
            global_step = StartStep + (discriminator.updates - StartUpdates))
    /\ [][(pc \notin {"idle", "killed"} /\ pc' \notin {"idle", "killed"})
            => global_step' >= global_step]_vars

\* a resumed process has trained a batch on top of the persisted global_step
C4_Witness ==
    /\ AfterLoad
    /\ decision = "accepted"
    /\ StartStep >= NBatches
    /\ global_step > StartStep

\* C5: a malformed or unreadable checkpoint entry never aborts startup:
\* load_checkpoint does not raise on it.
C5_MalformedEntrySkipped ==
    ~(pc = "aborted" /\ exc \in {"ValueError", "LoadError"})

\* C6: a partially written checkpoint file is never selected as the latest
\* checkpoint by load_checkpoint.
C6_PartialNeverSelected == \A f \in selected : f.complete

\* C7: a failed checkpoint save does not abort the run: the exception does
\* not leave the training loop.
C7_SaveFailureNotFatal ==
    exc = "SaveError" => pc \notin {"finally", "aborted"}

\* C8: a fatal configuration error (missing required key, or CUDA requested
\* but unavailable) aborts main before the checkpoint folder is created,
\* before a checkpoint is loaded into the models, before the telemetry
\* session is opened and before a batch is trained.
C8_FatalConfigBeforeMutation ==
    (pc = "aborted" /\ exc \in {"KeyError", "RuntimeError"}) => mutated = {}

\* C9: when main has exited, normally or by an exception, the telemetry
\* session it opened has been closed.
C9_SessionClosedOnExit == pc \in {"done", "aborted"} => wandb_run = None

\* C10: after an interruption, a restart with resume enabled and the config
\* of the checkpoint that was saved last continues at that checkpoint's
\* epoch + 1 with that checkpoint's global_step.
C10_ResumeFromLastSaved ==
    ( /\ LoadReturned \/ LoadRaised
      /\ interrupted
      /\ Truthy(Get(config, "resume_training", Some(TRUE)))
      /\ lastSaved # {}
      /\ \A l \in lastSaved :
            l.folder = checkpoint_folder /\ l.state.config = config )
    => /\ decision = "accepted"
       /\ \A l \in lastSaved :
            /\ start_epoch = l.state.epoch + 1
            /\ global_step = l.state.global_step

\* the process started without restoring a checkpoint
FreshRun == decision \in {"skipped", "nofiles", "rejected"}

\* the completely written checkpoints the current process has saved in its
\* folder for epoch e
SavedFor(e) ==
    {f \in fs : /\ f.folder = checkpoint_folder
                /\ f.complete
                /\ f.state.epoch = e
                /\ f.state.wandb_run_id = Some(starts)}

\* C11: a fresh run of E epochs over B batches per epoch that is not
\* interrupted ends with global_step = E * B; the checkpoint it saves for
\* epoch e holds global_step = (e + 1) * B, and a resume that accepts a
\* checkpoint of epoch e starts at the counters (e + 1, (e + 1) * B); with
\* checkpoint_interval 1 the run has saved a checkpoint for each of its
\* epochs 0 .. E - 1.
C11_FreshRunCounts ==
    /\ (pc = "done" /\ FreshRun) =>
          /\ global_step = Val(config, "epochs") * NBatches
          /\ Val(config, "checkpoint_interval") = 1 =>
                \A e \in 0 .. Val(config, "epochs") - 1 :
                    \E f \in SavedFor(e) :
                        f.state.global_step = (e + 1) * NBatches
    /\ (pc = "save_finish" /\ FreshRun) =>
          /\ global_step = (epoch + 1) * NBatches
          /\ \E f \in SavedFor(epoch) :
                /\ f.name = checkpoint_path
                /\ f.state.global_step = (epoch + 1) * NBatches
    /\ (LoadReturned /\ decision = "accepted") =>
          \A f \in selected :
              /\ start_epoch = f.state.epoch + 1
              /\ global_step = (f.state.epoch + 1) * NBatches

\* a fresh two-epoch run has finished
C11_Witness ==
    /\ pc = "done"
    /\ FreshRun
    /\ config = BaseConfig
    /\ global_step = 2 * NBatches
    /\ SavedFor(0) # {}
    /\ SavedFor(1) # {}

\* main is inside save_checkpoint
Saving == pc \in {"save", "save_write", "save_finish"}

\* C12: at the end of epoch e main calls evaluate and then save_checkpoint,
\* both with the global_step train_epoch returned for that epoch, if and
\* only if e % checkpoint_interval = 0 or e = epochs - 1: evaluate starts
\* only after the batch pass of a due epoch, save_checkpoint starts only
\* after evaluate has logged its images at that global_step, an epoch is
\* passed over only when it is not due, the files change only inside
\* save_checkpoint (or between runs), and a run that completes leaves a
\* checkpoint of its final epoch.
C12_EvaluateThenSaveWhenDue ==
    /\ []( /\ pc = "evaluate" =>
                /\ \/ epoch % Val(config, "checkpoint_interval") = 0
                   \/ epoch = Val(config, "epochs") - 1
                /\ i = NBatches
                /\ sink = [run |-> wandb_run, step |-> global_step,
                           kind |-> "epoch"]
           /\ Saving =>
                /\ \/ epoch % Val(config, "checkpoint_interval") = 0
                   \/ epoch = Val(config, "epochs") - 1
                /\ i = NBatches
                /\ sink = [run |-> wandb_run, step |-> global_step,
                           kind |-> "images"]
           /\ pc = "save_finish" =>
                \E f \in fs :
                   /\ f.folder = checkpoint_folder
                   /\ f.name = checkpoint_path
                   /\ f.state.epoch = epoch
                   /\ f.state.global_step = sink.step
           /\ pc = "done" =>
                \E f \in fs :
                   /\ f.folder = checkpoint_folder
                   /\ f.complete
                   /\ f.state.config = config
                   /\ f.state.epoch = Val(config, "epochs") - 1 )
    /\ [][ /\ (pc = "epoch_end" /\ pc' = "loop") =>
                ~ \/ epoch % Val(config, "checkpoint_interval") = 0
                  \/ epoch = Val(config, "epochs") - 1
           /\ fs' # fs => pc \in {"save", "save_write", "idle", "killed"}
           /\ (pc' = "save" /\ pc # "save") => pc = "evaluate" ]_vars

\* a run with checkpoint_interval 3 has finished its three epochs with a
\* checkpoint of epoch 0 and of epoch 2 and none of epoch 1
C12_Witness ==
    /\ pc = "done"
    /\ config = SparseConfig
    /\ FreshRun
    /\ SavedFor(0) # {}
    /\ SavedFor(1) = {}
    /\ SavedFor(2) # {}

\* C13: the path generate_checkpoint_folder returns is a function of the
\* base directory and of lr, batch_size, latent_dim, ngf and ndf only.  A
\* call is always possible at its call site and returns with the folder in
\* place, also when the folder exists already; two calls return the same
\* path exactly when their configs agree on the base directory and on the
\* five keys, whatever their other keys are.
C13_FolderByFingerprint ==
    /\ pc = "folder" => ENABLED GenerateCheckpointFolder
    /\ pc = "resume" => checkpoint_folder \in dirs
    /\ (pc = "resume" /\ other_folder # None) =>
          ( checkpoint_folder = other_folder
            <=> /\ \A k \in {"lr", "batch_size", "latent_dim", "ngf", "ndf"} :
                      config[k] = other_config[k]
                /\ Get(config, "checkpoint_dir", Some("checkpoints"))
                     = Get(other_config, "checkpoint_dir", Some("checkpoints")) )

\* a second call for a config that differs from the config of the first
\* call in epochs only has returned the path of the folder the first call
\* made
C13_Witness ==
    /\ pc = "resume"
    /\ other_folder # None
    /\ other_folder \in dirs
    /\ checkpoint_folder = other_folder
    /\ config # other_config
    /\ Val(config, "epochs") # Val(other_config, "epochs")

\* C14 as stated: within one telemetry run id the step keys of successive
\* events never decrease, also from the last event of an interrupted
\* process to the first event of the process that resumes the run id.
C14_StepKeysNonDecreasing ==
    [][(sink' # sink /\ sink'.run = sink.run) => sink'.step >= sink.step]_vars

\* C14 amended: the events a process logs all carry the run id of the
\* process and step keys that never decrease from one event to the next,
\* the first of them being at least the global_step the process started
\* training with (that of the checkpoint an accepted resume loaded).
C14_StepKeysWithinProcess ==
    /\ []("logged" \in mutated =>
            /\ sink.run = IF run_id = None THEN Some(starts) ELSE run_id
            /\ sink.step >= StartStep
            /\ sink.step <= global_step)
    /\ [][("logged" \in mutated /\ sink' # sink) =>
            /\ sink'.run = sink.run
            /\ sink'.step >= sink.step]_vars

\* a process that resumed a run id has logged a batch past the checkpoint
C14_Witness ==
    /\ decision = "accepted"
    /\ "logged" \in mutated
    /\ sink.run = run_id
    /\ sink.run # Some(starts)
    /\ sink.kind = "batch"
    /\ sink.step > StartStep

C16_CheckpointsWriteOnce ==
    [][Saving => \A f \in fs : f.complete => f \in fs']_vars

\* C17 as stated: evaluate leaves the parameters of the generator as they
\* are, and whenever control leaves evaluate, by a return or by an
\* exception, the generator is in trainable mode.
C17_TrainableWheneverEvaluateLeft ==
    [][(pc = "evaluate" /\ pc' \notin {"evaluate", "killed"}) =>
          /\ generator' = generator
          /\ training']_vars

\* C17 amended: evaluate leaves the parameters of the generator as they
\* are; when evaluate returns the generator is in trainable mode; and every
\* generator and discriminator step runs with the generator in trainable
\* mode.
C17_TrainableAfterEvaluateReturns ==
    /\ [](pc \in {"gen", "disc", "save"} => training)
    /\ [][ /\ (pc = "evaluate" /\ pc' \notin {"evaluate", "killed"}) =>
                generator' = generator
           /\ (pc = "evaluate" /\ pc' = "save") => training' ]_vars

\* an epoch is being trained after evaluate has logged its images
C17_Witness ==
    /\ pc = "gen"
    /\ i = 0
    /\ sink = [run |-> wandb_run, step |-> global_step, kind |-> "images"]
    /\ training

\* C18: every checkpoint file of every run folder records an epoch e whose
\* batch pass is complete (both models have taken (e + 1) * B steps, B the
\* batches per epoch) and the global_step (e + 1) * B, under the epoch
\* number of its file name; this holds over fresh starts, accepted and
\* rejected resumes and interruptions.
C18_CheckpointsHoldWholeEpochs ==
    \A f \in fs :
        IsCkptFile(f.name) =>
            /\ EpochOf(f) = f.state.epoch
            /\ f.state.global_step = (f.state.epoch + 1) * NBatches
            /\ f.state.generator_state_dict.updates
                 = (f.state.epoch + 1) * NBatches
            /\ f.state.discriminator_state_dict.updates
                 = (f.state.epoch + 1) * NBatches

\* after an interruption a process that resumed from a checkpoint of epoch 0
\* has trained and saved epoch 1
C18_Witness ==
    /\ pc = "save_finish"
    /\ decision = "accepted"
    /\ epoch = 1
    /\ \E f \in fs :
          /\ f.folder = checkpoint_folder
          /\ f.name = checkpoint_path
          /\ f.complete
          /\ f.state.generator_state_dict.init # starts
    /\ interrupted

\* C19: when the folder holds a completely written checkpoint saved under
\* the config main is started with, and resume is enabled, load_checkpoint
\* resumes from a checkpoint of that config, whatever other checkpoints the
\* folder holds: the checkpoints a run with other non-fingerprint keys has
\* left there do not make the restart start fresh.
C19_ResumesFromOwnCheckpoint ==
    ( /\ LoadReturned
      /\ Truthy(Get(config, "resume_training", Some(TRUE)))
      /\ \E g \in CkptFiles(checkpoint_folder) :
            g.complete /\ g.state.config = config )
    => /\ decision = "accepted"
       /\ \A f \in selected : f.state.config = config

\* C20: the resume flag only decides whether a resume is attempted.  With
\* resume_training false main reads no checkpoint and starts at epoch 0,
\* global_step 0, without a run id and with the models as they were built;
\* and after a run started with resume_training false was interrupted, a
\* restart with resume enabled and all other keys unchanged continues from
\* the checkpoint that run saved last.
C20_ResumeFlagOnlyGatesResume ==
    /\ (LoadReturned /\ ~Truthy(Get(config, "resume_training", Some(TRUE))))
         => /\ decision = "skipped"
            /\ selected = {}
            /\ start_epoch = 0 /\ global_step = 0 /\ run_id = None
            /\ <<generator, discriminator, optimizer_g, optimizer_d>> = before
    /\ ( /\ LoadReturned
         /\ interrupted
         /\ Truthy(Get(config, "resume_training", Some(TRUE)))
         /\ lastSaved # {}
         /\ \A l \in lastSaved :
               /\ l.folder = checkpoint_folder
               /\ ~Truthy(Get(l.state.config, "resume_training", Some(TRUE)))
               /\ Without(l.state.config, "resume_training")
                    = Without(config, "resume_training") )
         => /\ decision = "accepted"
            /\ \A l \in lastSaved :
                  /\ start_epoch = l.state.epoch + 1
                  /\ global_step = l.state.global_step

====
